---- MODULE Spec2Model ----
(***************************************************************************)
(* Model of the two tuition-log loaders:                                   *)
(*   database/tuition_log_injest_script.py  (destructive: confirm, DELETE, *)
(*                                           re-insert)                    *)
(*   tuition_log_injest_script.py           (additive: insert only)        *)
(* One behaviour is a sequence of process runs of one loader's main()      *)
(* against one CSV file, one students table and one tuition_logs table.    *)
(***************************************************************************)
EXTENDS Integers, Sequences, FiniteSets, TLC

VARIABLES
    loader,              \* which script is run: "destructive" or "additive"
    csv,                 \* the file at CSV_FILE_PATH: [header, rows of cells]
    students,            \* rows of the students table, in SELECT order
    committed,           \* durable contents of tuition_logs
    tx,                  \* tuition_logs as seen inside the open transaction
    conn,                \* "unbound" (no local conn), "open", "closed"
    pc,                  \* position inside main()
    exc,                 \* exception in flight / leaving main()
    i,                   \* index of the next CSV row the for loop reads
    student_parent_map,  \* the local of main() returned by the lookup
    confirm,             \* the operator's answer to input()
    log,                 \* this run's statements, prints and connection calls
    before,              \* tuition_logs when the current run started
    history              \* per finished run: [commit, before, table]

vars == <<loader, csv, students, committed, tx, conn, pc, exc, i,
          student_parent_map, confirm, log, before, history>>

\* ---------------------------------------------------------------- bounds
MaxRows == 2
MaxRuns == 2

\* ------------------------------------------------------------ text values
\* Text that the code inspects character by character (attendees, names, the
\* confirmation answer) is a sequence of characters; LDQ and RDQ stand for the
\* curly quotes U+201C and U+201D.
Whitespace == {" "}
CurlyQuotes == {"LDQ", "RDQ"}

LowerChar(c) ==
    CASE c = "Y" -> "y"
      [] c = "E" -> "e"
      [] c = "S" -> "s"
      [] c = "N" -> "n"
      [] c = "O" -> "o"
      [] OTHER -> c

\* str.lower()
Lower(s) == [k \in 1..Len(s) |-> LowerChar(s[k])]

RECURSIVE LStrip(_, _)
LStrip(s, chars) ==
    IF s # <<>> /\ Head(s) \in chars THEN LStrip(Tail(s), chars) ELSE s

RECURSIVE RStrip(_, _)
RStrip(s, chars) ==
    IF s # <<>> /\ s[Len(s)] \in chars
    THEN RStrip(SubSeq(s, 1, Len(s) - 1), chars)
    ELSE s

\* str.strip() / str.strip(chars): drop leading and trailing members of chars
Strip(s, chars) == RStrip(LStrip(s, chars), chars)

\* str.split(','): always at least one piece
RECURSIVE Split(_, _)
Split(s, sep) ==
    IF \A k \in 1..Len(s) : s[k] # sep
    THEN <<s>>
    ELSE LET p == CHOOSE k \in 1..Len(s) :
                      s[k] = sep /\ \A j \in 1..(k - 1) : s[j] # sep
         IN  <<SubSeq(s, 1, p - 1)>> \o Split(SubSeq(s, p + 1, Len(s)), sep)

\* The per-name sanitising of each loader
NormalizeAdditive(name) == Strip(name, Whitespace)
NormalizeDestructive(name) == Strip(Strip(name, Whitespace), CurlyQuotes)
Normalize(ld, name) ==
    IF ld = "destructive" THEN NormalizeDestructive(name)
    ELSE NormalizeAdditive(name)

AttendeeNames(ld, text) ==
    LET parts == Split(text, ",")
    IN  [k \in 1..Len(parts) |-> Normalize(ld, parts[k])]

\* ------------------------------------------------------------- csv reader
\* A value of a row dict: a string, or None (restval of csv.DictReader).
Str(s) == [null |-> FALSE, s |-> s]
None == [null |-> TRUE, s |-> ""]

Columns == <<"date", "start_time", "end_time", "subject", "attendees",
             "cost_per_hour", "lesson_index">>
ColumnsNoCost == <<"date", "start_time", "end_time", "subject", "attendees",
                   "lesson_index">>
ColumnsDateLast == <<"start_time", "end_time", "subject", "attendees",
                     "cost_per_hour", "lesson_index", "date">>

IndexOf(header, k) == CHOOSE j \in 1..Len(header) : header[j] = k

\* csv.DictReader: header names zipped with the cells; a row shorter than the
\* header gets None for the remaining names.
DictReader(header, cells) ==
    [k \in {header[j] : j \in 1..Len(header)} |->
        IF IndexOf(header, k) <= Len(cells)
        THEN Str(cells[IndexOf(header, k)])
        ELSE None]

\* float(): the numeric texts of the model, in hundredths
FloatTable == ("60.00" :> 6000) @@ ("50" :> 5000)
\* int()
IntTable == ("1" :> 1) @@ ("2" :> 2)

\* f"{v}"
Format(v) == IF v.null THEN "None" ELSE v.s

\* ----------------------------------------------------------- lookup map
\* str(uuid)
StrOf(id) == id.uuid

EmptyMap == [n \in {} |-> <<>>]

RECURSIVE FirstWinsMap(_)
FirstWinsMap(rows) ==
    IF rows = <<>> THEN EmptyMap
    ELSE LET r == rows[Len(rows)]
         IN  FirstWinsMap(SubSeq(rows, 1, Len(rows) - 1))
                 @@ (r.first_name :> <<StrOf(r.id), StrOf(r.user_id)>>)

\* get_student_parent_map: student_map[first_name] = (str(id), str(user_id)),
\* a later row overwriting an earlier one of the same first name
RECURSIVE BuildMap(_)
BuildMap(rows) ==
    IF rows = <<>> THEN EmptyMap
    ELSE LET r == rows[Len(rows)]
         IN  (r.first_name :> <<StrOf(r.id), StrOf(r.user_id)>>)
                 @@ BuildMap(SubSeq(rows, 1, Len(rows) - 1))

\* ------------------------------------------------------ one row of the loop
\* What the body of the for loop does with one row dict, up to (not including)
\* the database's answer to the INSERT:
\*   [kind |-> "miss"]            first attendee not in the map: continue
\*   [kind |-> "invalid"]         KeyError / ValueError: caught, continue
\*   [kind |-> "raise", exc]      another exception: leaves the loop
\*   [kind |-> "insert", rec]     cur.execute(INSERT ..., rec)
Has(row, k) == k \in DOMAIN row

\* the lesson_index parameter: an integer, or None (SQL NULL)
SqlInt(n) == [null |-> FALSE, v |-> n]
SqlNull == [null |-> TRUE, v |-> 0]

Raise(e) == [kind |-> "raise", exc |-> e]
Invalid == [kind |-> "invalid"]

InsertTuple(ld, row, map) ==
    LET names == AttendeeNames(ld, row["attendees"].s)
        li == IF Has(row, "lesson_index") /\ ~row["lesson_index"].null
                 /\ row["lesson_index"].s # ""
              THEN SqlInt(IntTable[row["lesson_index"].s])
              ELSE SqlNull
    IN  [parent_user_id |-> map[names[1]][2],
         subject |-> row["subject"],
         attendee_names |-> names,
         lesson_index |-> li,
         cost_per_hour |-> FloatTable[row["cost_per_hour"].s],
         start_time |-> Format(row["date"]) \o " " \o Format(row["start_time"]),
         end_time |-> Format(row["date"]) \o " " \o Format(row["end_time"])]

RowOutcome(ld, row, map) ==
    \* row['attendees']: KeyError; None.split: AttributeError
    IF ~Has(row, "attendees") THEN Invalid
    ELSE IF row["attendees"].null THEN Raise("AttributeError")
    ELSE IF AttendeeNames(ld, row["attendees"].s)[1] \notin DOMAIN map
         THEN [kind |-> "miss"]
    \* the two f-strings
    ELSE IF ~Has(row, "date") \/ ~Has(row, "start_time")
            \/ ~Has(row, "end_time") THEN Invalid
    \* int(row['lesson_index']) if row.get('lesson_index') else None
    ELSE IF Has(row, "lesson_index") /\ ~row["lesson_index"].null
            /\ row["lesson_index"].s # ""
            /\ row["lesson_index"].s \notin DOMAIN IntTable THEN Invalid
    \* the print, then the argument tuple
    ELSE IF ~Has(row, "subject") \/ ~Has(row, "cost_per_hour") THEN Invalid
    \* float(None): TypeError
    ELSE IF row["cost_per_hour"].null THEN Raise("TypeError")
    ELSE IF row["cost_per_hour"].s \notin DOMAIN FloatTable THEN Invalid
    ELSE [kind |-> "insert", rec |-> InsertTuple(ld, row, map)]

\* ------------------------------------------------------------------ inputs
RowA == [date |-> "2025-09-04", start_time |-> "10:00", end_time |-> "11:30",
         subject |-> "Math", attendees |-> <<" ", "M", ",", "O">>,
         cost_per_hour |-> "60.00", lesson_index |-> "1"]
\* curly-quoted attendee, empty lesson_index
RowB == [date |-> "2025-09-01", start_time |-> "19:00", end_time |-> "20:00",
         subject |-> "Physics", attendees |-> <<"LDQ", "O", "RDQ">>,
         cost_per_hour |-> "50", lesson_index |-> ""]
\* attendee unknown to the students table
RowC == [RowA EXCEPT !.attendees = <<"X">>]
\* non-numeric cost_per_hour
RowD == [RowA EXCEPT !.cost_per_hour = "abc"]
\* non-integer lesson_index
RowE == [RowA EXCEPT !.lesson_index = "x"]

FullRows == {RowA, RowB, RowC, RowD, RowE}

\* the first n cells of the line that holds d under header h
Cells(h, d, n) == [j \in 1..n |-> d[h[j]]]

\* lines of the file: full lines, and RowA cut short by one to three cells
Lines(h) ==
    {Cells(h, d, Len(h)) : d \in FullRows}
        \cup {Cells(h, RowA, Len(h) - k) : k \in 1..3}

SeqsUpTo(S, n) == UNION {[1..m -> S] : m \in 0..n}

NoFile == [exists |-> FALSE, header |-> <<>>, rows |-> <<>>]

CsvFiles ==
    {NoFile} \cup
    {[exists |-> TRUE, header |-> Columns, rows |-> rs] :
        rs \in SeqsUpTo(Lines(Columns), MaxRows)}
    \cup
    {[exists |-> TRUE, header |-> ColumnsNoCost, rows |-> rs] :
        rs \in SeqsUpTo({Cells(ColumnsNoCost, RowA, Len(ColumnsNoCost))}, 1)}
    \cup
    {[exists |-> TRUE, header |-> ColumnsDateLast, rows |-> rs] :
        rs \in SeqsUpTo({Cells(ColumnsDateLast, RowA, Len(ColumnsDateLast) - 1)}, 1)}

Uuid(t) == [uuid |-> t]
Student(sid, gid, name) ==
    [id |-> Uuid(sid), user_id |-> Uuid(gid), first_name |-> name]

StudentTables ==
    { <<Student("s1", "g1", <<"M">>), Student("s2", "g2", <<"O">>)>>,
      <<Student("s1", "g1", <<"M">>), Student("s3", "g3", <<"M">>)>> }

OldRecord ==
    [parent_user_id |-> "g9", subject |-> Str("Chemistry"),
     attendee_names |-> << <<"Z">> >>, lesson_index |-> SqlNull,
     cost_per_hour |-> 5500, start_time |-> "2025-09-02 17:00",
     end_time |-> "2025-09-02 18:00"]

InitialTables == { <<>>, <<OldRecord>> }

\* answers typed at the confirmation prompt
Yes == <<"y", "e", "s">>
Answers == { Yes, <<"Y", "E", "S">>, <<"Y", "e", "s">>, <<"n", "o">>, <<>>,
             <<"y">>, <<"y", "e", "s", " ">> }
NoAnswer == <<"-">>

\* -------------------------------------------------------------------- main
Range(s) == {s[k] : k \in 1..Len(s)}

Rows == csv.rows
RowDict(k) == DictReader(csv.header, Rows[k])
Outcome(k) == RowOutcome(loader, RowDict(k), student_parent_map)

\* conn.commit() returned in this run
RunCommitted == "print SUCCESS" \in Range(log)

Init ==
    /\ loader \in {"destructive", "additive"}
    /\ csv \in CsvFiles
    /\ students \in StudentTables
    /\ committed \in InitialTables
    /\ tx = <<>>
    /\ conn = "unbound"
    /\ pc = "start"
    /\ exc = "none"
    /\ i = 1
    /\ student_parent_map = EmptyMap
    /\ confirm = NoAnswer
    /\ log = <<>>
    /\ before = committed
    /\ history = <<>>

Inputs == <<loader, csv, students, before>>

\* if not DATABASE_URL: print, return
StartNoUrl ==
    /\ pc = "start"
    /\ pc' = "done"
    /\ log' = Append(log, "print ERROR: DATABASE_URL not found")
    /\ history' = Append(history, [commit |-> FALSE, before |-> before,
                                   table |-> committed])
    /\ UNCHANGED <<Inputs, committed, tx, conn, exc, i, student_parent_map,
                   confirm>>

\* DATABASE_URL is set: enter the try block
Start ==
    /\ pc = "start"
    /\ pc' = IF loader = "destructive" THEN "confirm" ELSE "connect"
    /\ UNCHANGED <<Inputs, committed, tx, conn, exc, i, student_parent_map,
                   confirm, log, history>>

AcceptsUnlessNo(answer) == Lower(answer) # <<"n", "o">>

\* confirm.lower() != 'yes' is the refusal test
Accepts(answer) == Lower(answer) = Yes

\* confirm = input(...); if confirm.lower() != 'yes': print, return
Confirm ==
    /\ pc = "confirm"
    /\ \E answer \in Answers :
        /\ confirm' = answer
        /\ IF Accepts(answer)
           THEN /\ pc' = "connect"
                /\ log' = log
           ELSE /\ pc' = "finally"
                /\ log' = Append(log, "print Operation cancelled by user.")
    /\ UNCHANGED <<Inputs, committed, tx, conn, exc, i, student_parent_map,
                   history>>

AlwaysDelete(ld) == "delete"

\* the statement after the connect: the destructive loader's DELETE, or the
\* lookup
AfterConnect(ld) == IF ld = "destructive" THEN "delete" ELSE "lookup"

Autocommit(c, t) == t

\* psycopg2.connect leaves autocommit off: a statement that changed the
\* transaction's table to t leaves the durable table c as it is
Durable(c, t) == c

\* conn = psycopg2.connect(DATABASE_URL); a new transaction sees the
\* committed table
Connect ==
    /\ pc = "connect"
    /\ \E fault \in BOOLEAN :
        IF fault
        THEN /\ exc' = "psycopg2.Error"
             /\ pc' = "except"
             /\ UNCHANGED <<conn, tx>>
        ELSE /\ conn' = "open"
             /\ tx' = committed
             /\ pc' = AfterConnect(loader)
             /\ exc' = exc
    /\ log' = Append(log, "connect")
    /\ UNCHANGED <<Inputs, committed, i, student_parent_map, confirm, history>>

DeleteNothing(t) == t

\* DELETE FROM tuition_logs; without a WHERE clause
DeleteAll(t) == <<>>

\* cur.execute("DELETE FROM tuition_logs;")
Delete ==
    /\ pc = "delete"
    /\ \E fault \in BOOLEAN :
        IF fault
        THEN /\ exc' = "psycopg2.Error"
             /\ pc' = "except"
             /\ tx' = tx
        ELSE /\ tx' = DeleteAll(tx)
             /\ pc' = "lookup"
             /\ exc' = exc
    /\ committed' = Durable(committed, tx')
    /\ log' = Append(log, "DELETE")
    /\ UNCHANGED <<Inputs, conn, i, student_parent_map, confirm, history>>

\* student_parent_map = get_student_parent_map(cur)
Lookup ==
    /\ pc = "lookup"
    /\ \E fault \in BOOLEAN :
        IF fault
        THEN /\ exc' = "psycopg2.Error"
             /\ pc' = "except"
             /\ student_parent_map' = student_parent_map
        ELSE /\ student_parent_map' = BuildMap(students)
             /\ pc' = "open"
             /\ exc' = exc
    /\ log' = Append(log, "SELECT")
    /\ UNCHANGED <<Inputs, committed, tx, conn, i, confirm, history>>

\* with open(CSV_FILE_PATH, ...) as csvfile: reader = csv.DictReader(csvfile)
OpenCsv ==
    /\ pc = "open"
    /\ IF csv.exists
       THEN /\ pc' = "rows"
            /\ exc' = exc
       ELSE /\ pc' = "except"
            /\ exc' = "FileNotFoundError"
    /\ i' = 1
    /\ UNCHANGED <<Inputs, committed, tx, conn, student_parent_map, confirm,
                   log, history>>

\* the loop left with break where the code has continue
SkipRowBreaks ==
    /\ pc = "rows"
    /\ i <= Len(Rows)
    /\ Outcome(i).kind \in {"miss", "invalid"}
    /\ i' = IF Outcome(i).kind = "miss" THEN Len(Rows) + 1 ELSE i + 1
    /\ log' = Append(log, IF Outcome(i).kind = "miss"
                          THEN "print WARNING: Skipping row. Student not found"
                          ELSE "print WARNING: Skipping invalid row")
    /\ UNCHANGED <<Inputs, committed, tx, conn, pc, exc, student_parent_map,
                   confirm, history>>

\* one iteration of "for row in reader" whose body ends in continue
SkipRow ==
    /\ pc = "rows"
    /\ i <= Len(Rows)
    /\ Outcome(i).kind \in {"miss", "invalid"}
    /\ i' = i + 1
    /\ log' = Append(log, IF Outcome(i).kind = "miss"
                          THEN "print WARNING: Skipping row. Student not found"
                          ELSE "print WARNING: Skipping invalid row")
    /\ UNCHANGED <<Inputs, committed, tx, conn, pc, exc, student_parent_map,
                   confirm, history>>

\* one iteration whose body raises something other than KeyError, ValueError
\* before reaching cur.execute
RowRaises ==
    /\ pc = "rows"
    /\ i <= Len(Rows)
    /\ Outcome(i).kind = "raise"
    /\ exc' = Outcome(i).exc
    /\ pc' = "except"
    /\ UNCHANGED <<Inputs, committed, tx, conn, i, student_parent_map,
                   confirm, log, history>>

\* one iteration that reaches cur.execute(INSERT ...)
InsertRow ==
    /\ pc = "rows"
    /\ i <= Len(Rows)
    /\ Outcome(i).kind = "insert"
    /\ \E fault \in BOOLEAN :
        IF fault
        THEN /\ exc' = "psycopg2.Error"
             /\ pc' = "except"
             /\ UNCHANGED <<tx, i>>
        ELSE /\ tx' = Append(tx, Outcome(i).rec)
             /\ i' = i + 1
             /\ UNCHANGED <<pc, exc>>
    /\ committed' = Durable(committed, tx')
    /\ log' = Append(log, "INSERT")
    /\ UNCHANGED <<Inputs, conn, student_parent_map, confirm, history>>

\* the reader is exhausted: conn.commit(); print SUCCESS
Commit ==
    /\ pc = "rows"
    /\ i > Len(Rows)
    /\ \E fault \in BOOLEAN :
        IF fault
        THEN /\ exc' = "psycopg2.Error"
             /\ pc' = "except"
             /\ committed' = committed
             /\ log' = Append(log, "COMMIT")
        ELSE /\ committed' = tx
             /\ pc' = "finally"
             /\ exc' = exc
             /\ log' = log \o <<"COMMIT", "print SUCCESS">>
    /\ UNCHANGED <<Inputs, tx, conn, i, student_parent_map, confirm, history>>

\* the handler with conn.commit() where the code has conn.rollback()
ExceptDatabaseErrorCommits ==
    /\ pc = "except"
    /\ exc = "psycopg2.Error"
    /\ pc' = "finally"
    /\ exc' = "none"
    /\ log' = Append(log, "print DATABASE ERROR")
    /\ committed' = IF conn = "unbound" THEN committed ELSE tx
    /\ UNCHANGED <<Inputs, tx, conn, i, student_parent_map, confirm, history>>

\* the handler with the rollback ahead of the print
ExceptDatabaseErrorRollbackFirst ==
    /\ pc = "except"
    /\ exc = "psycopg2.Error"
    /\ pc' = "finally"
    /\ IF conn = "unbound"
       THEN /\ log' = Append(log, "print DATABASE ERROR")
            /\ exc' = "none"
            /\ tx' = tx
       ELSE /\ log' = log \o <<"rollback", "print DATABASE ERROR">>
            /\ exc' = "none"
            /\ tx' = committed
    /\ UNCHANGED <<Inputs, committed, conn, i, student_parent_map, confirm,
                   history>>

\* except psycopg2.Error as e: print; if 'conn' in locals(): conn.rollback()
ExceptDatabaseError ==
    /\ pc = "except"
    /\ exc = "psycopg2.Error"
    /\ pc' = "finally"
    /\ IF conn = "unbound"
       THEN /\ log' = Append(log, "print DATABASE ERROR")
            /\ exc' = "none"
            /\ tx' = tx
       ELSE /\ log' = log \o <<"print DATABASE ERROR", "rollback">>
            /\ \E fault \in BOOLEAN :
                IF fault
                THEN /\ exc' = "psycopg2.Error"
                     /\ tx' = tx
                ELSE /\ exc' = "none"
                     /\ tx' = committed
    /\ UNCHANGED <<Inputs, committed, conn, i, student_parent_map, confirm,
                   history>>

\* except FileNotFoundError: print
ExceptFileNotFound ==
    /\ pc = "except"
    /\ exc = "FileNotFoundError"
    /\ pc' = "finally"
    /\ exc' = "none"
    /\ log' = Append(log, "print FILE ERROR")
    /\ UNCHANGED <<Inputs, committed, tx, conn, i, student_parent_map,
                   confirm, history>>

\* no except clause matches: the exception goes on through finally
Unhandled ==
    /\ pc = "except"
    /\ exc \notin {"psycopg2.Error", "FileNotFoundError"}
    /\ pc' = "finally"
    /\ UNCHANGED <<Inputs, committed, tx, conn, exc, i, student_parent_map,
                   confirm, log, history>>

ClosesOnSuccessOnly(c) == c = "open" /\ exc = "none"

\* 'conn' in locals() and conn
MustClose(c) == c = "open"

\* finally: if 'conn' in locals() and conn: conn.close()
\* closing discards whatever the transaction had not committed
Finally ==
    /\ pc = "finally"
    /\ pc' = "done"
    /\ IF MustClose(conn)
       THEN /\ conn' = "closed"
            /\ tx' = <<>>
            /\ log' = Append(log, "close")
       ELSE UNCHANGED <<conn, tx, log>>
    /\ history' = Append(history, [commit |-> RunCommitted, before |-> before,
                                   table |-> committed])
    /\ UNCHANGED <<Inputs, committed, exc, i, student_parent_map, confirm>>

\* the script is started again, on the same file and tables
NextRun ==
    /\ pc = "done"
    /\ Len(history) < MaxRuns
    /\ pc' = "start"
    /\ conn' = "unbound"
    /\ tx' = <<>>
    /\ exc' = "none"
    /\ i' = 1
    /\ student_parent_map' = EmptyMap
    /\ confirm' = NoAnswer
    /\ log' = <<>>
    /\ before' = committed
    /\ UNCHANGED <<loader, csv, students, committed, history>>

Next ==
    \/ StartNoUrl
    \/ Start
    \/ Confirm
    \/ Connect
    \/ Delete
    \/ Lookup
    \/ OpenCsv
    \/ SkipRow
    \/ RowRaises
    \/ InsertRow
    \/ Commit
    \/ ExceptDatabaseError
    \/ ExceptFileNotFound
    \/ Unhandled
    \/ Finally
    \/ NextRun

Spec == Init /\ [][Next]_vars

\* ------------------------------------------------------------- properties
Count(ev) == Cardinality({k \in 1..Len(log) : log[k] = ev})
Logged(ev) == ev \in Range(log)

\* psycopg2.Error was raised in this run
DatabaseErrorRaised ==
    \/ pc = "except" /\ exc = "psycopg2.Error"
    \/ Logged("print DATABASE ERROR")

\* C1: in both loaders, once a statement of the run has raised a database
\* error, the durable tuition_logs table is the table the run started with,
\* up to and including the return of main(), however many statements had
\* succeeded before it.
C1_RollbackRestores == DatabaseErrorRaised => committed = before

C1_Witness ==
    /\ pc = "done"
    /\ loader = "destructive"
    /\ before # <<>>
    /\ Logged("print DATABASE ERROR")
    /\ Logged("DELETE")
    /\ Count("INSERT") = 2

\* C2 as stated: every answer other than the exact text 'yes' ends the
\* destructive run with no connection, no DELETE, no INSERT and the table
\* unchanged.
C2_ExactYesOnly ==
    (loader = "destructive" /\ confirm # Yes) =>
        /\ conn = "unbound"
        /\ ~Logged("connect") /\ ~Logged("DELETE") /\ ~Logged("INSERT")
        /\ committed = before

\* C2 amended: every answer whose lower-cased text is not 'yes' ends the
\* destructive run with no connection opened, no DELETE, no INSERT and the
\* table unchanged.
C2_DeclinedTouchesNothing ==
    (loader = "destructive" /\ Lower(confirm) # Yes) =>
        /\ conn = "unbound"
        /\ ~Logged("connect") /\ ~Logged("DELETE") /\ ~Logged("INSERT")
        /\ committed = before

C2_Witness ==
    /\ pc = "done"
    /\ loader = "destructive"
    /\ confirm = <<"y", "e", "s", " ">>
    /\ before # <<>>
    /\ Logged("print Operation cancelled by user.")

RequiredFields == {"date", "start_time", "end_time", "subject", "attendees",
                   "cost_per_hour"}

\* a row the claim calls defective: a required field absent or null, a
\* cost_per_hour that is no number, a lesson_index that is no integer
Defective(row) ==
    \/ \E k \in RequiredFields : ~Has(row, k) \/ row[k].null
    \/ row["cost_per_hour"].s \notin DOMAIN FloatTable
    \/ /\ Has(row, "lesson_index")
       /\ ~row["lesson_index"].null
       /\ row["lesson_index"].s \notin DOMAIN IntTable \cup {""}

\* C3: in both loaders, the loop iteration of a defective row executes no
\* INSERT, raises nothing out of the loop and moves on to the next row.
C3_DefectiveRowSkipped ==
    [][(pc = "rows" /\ i <= Len(Rows) /\ Defective(RowDict(i))) =>
          /\ pc' = "rows"
          /\ i' = i + 1
          /\ tx' = tx
          /\ exc' = "none"
          /\ Count("INSERT")' = Count("INSERT")]_vars

\* C4: two successive runs of the destructive loader that both commit leave
\* the same table.
C4_DestructiveIdempotent ==
    loader = "destructive" =>
        \A k \in 1..(Len(history) - 1) :
            (history[k].commit /\ history[k + 1].commit) =>
                history[k + 1].table = history[k].table

C4_Witness ==
    /\ loader = "destructive"
    /\ Len(history) >= 2
    /\ history[1].commit /\ history[2].commit
    /\ history[1].before # <<>>
    /\ Len(history[2].table) = 2

\* the records of the rows of the file that reach the INSERT, in file order
RECURSIVE RecordsUpTo(_)
RecordsUpTo(n) ==
    IF n = 0 THEN <<>>
    ELSE LET o == RowOutcome(loader, RowDict(n), BuildMap(students))
         IN  RecordsUpTo(n - 1) \o (IF o.kind = "insert" THEN <<o.rec>> ELSE <<>>)

Records == RecordsUpTo(Len(Rows))

\* C5: the additive loader only appends: a committing run leaves the table it
\* found followed by the records of the valid rows, and the next committing
\* run leaves that followed by the same records again.
C5_AdditiveAccumulates ==
    loader = "additive" =>
        /\ \A k \in 1..Len(history) :
               history[k].commit =>
                   history[k].table = history[k].before \o Records
        /\ \A k \in 1..(Len(history) - 1) :
               (history[k].commit /\ history[k + 1].commit) =>
                   history[k + 1].table = history[k].before \o Records \o Records
        /\ Len(committed) >= Len(before)
        /\ SubSeq(committed, 1, Len(before)) = before

C5_Witness ==
    /\ loader = "additive"
    /\ Len(history) >= 2
    /\ history[1].commit /\ history[2].commit
    /\ history[1].before # <<>>
    /\ Len(Records) = 2
    /\ Len(history[2].table) = 5

\* C6: in both loaders, when the CSV file does not exist the run issues no
\* COMMIT and the durable table stays the table the run started with, also
\* after the destructive loader's DELETE has run in the open transaction; the
\* connection is closed when main() returns.
C6_MissingFileLeavesTable ==
    (~csv.exists \/ Logged("print FILE ERROR")) =>
        /\ committed = before
        /\ ~Logged("COMMIT")
        /\ pc = "done" => conn # "open"

C6_Witness ==
    /\ pc = "done"
    /\ loader = "destructive"
    /\ before # <<>>
    /\ Logged("DELETE")
    /\ Logged("print FILE ERROR")
    /\ conn = "closed"

Reports == {"print DATABASE ERROR", "print FILE ERROR"}
Statements == {"DELETE", "SELECT", "INSERT", "COMMIT"}

\* C7 as stated: once the connection is open, no fatal error is reported
\* unless a rollback on the connection came before the report.
C7_RollbackBeforeReport ==
    conn # "unbound" =>
        \A k \in 1..Len(log) :
            log[k] \in Reports => \E j \in 1..(k - 1) : log[j] = "rollback"

\* C7 amended: once the connection is open, a database fault ends the
\* statements of the run, is reported, and the report is followed at once by
\* a rollback on the connection (none comes before it); a missing CSV file
\* ends the statements and is reported with no rollback at all.
C7_ReportThenRollback ==
    conn # "unbound" =>
        /\ \A k \in 1..Len(log) :
               log[k] = "print DATABASE ERROR" =>
                   /\ k < Len(log) /\ log[k + 1] = "rollback"
                   /\ \A j \in 1..(k - 1) : log[j] # "rollback"
        /\ Logged("print FILE ERROR") => ~Logged("rollback")
        /\ \A k \in 1..Len(log) :
               log[k] \in Reports =>
                   \A j \in (k + 1)..Len(log) : log[j] \notin Statements
        /\ (pc \in {"finally", "done"} /\ ~RunCommitted /\ exc = "none") =>
               \E k \in 1..Len(log) : log[k] \in Reports

C7_Witness ==
    /\ pc = "done"
    /\ conn = "closed"
    /\ Count("INSERT") = 2
    /\ log[Len(log) - 2] = "print DATABASE ERROR"
    /\ log[Len(log) - 1] = "rollback"
    /\ log[Len(log)] = "close"

\* C8: in both loaders main() never ends with the connection it opened still
\* open, whichever way it ends.
C8_ConnectionClosed == pc = "done" => conn # "open"

C8_Witness ==
    /\ pc = "done"
    /\ conn = "closed"
    /\ exc = "TypeError"
    /\ Logged("INSERT")

\* the first attendee name of row k, sanitised as the loader does, is no key
\* of the lookup map
LookupMiss(k) ==
    /\ Has(RowDict(k), "attendees")
    /\ ~RowDict(k)["attendees"].null
    /\ Normalize(loader, Split(RowDict(k)["attendees"].s, ",")[1])
           \notin DOMAIN student_parent_map

\* C9: in both loaders the loop iteration of a row whose first attendee is
\* not in the lookup map executes no INSERT and moves on to the next row with
\* nothing raised, and a run that commits has committed the records of the
\* other rows only.
C9_MissSkipsRowOnly ==
    /\ [][(pc = "rows" /\ i <= Len(Rows) /\ LookupMiss(i)) =>
             /\ pc' = "rows"
             /\ i' = i + 1
             /\ tx' = tx
             /\ exc' = "none"
             /\ Count("INSERT")' = Count("INSERT")]_vars
    /\ [](RunCommitted =>
             /\ \A k \in 1..Len(Rows) :
                    LookupMiss(k) => Outcome(k).kind = "miss"
             /\ Count("INSERT") =
                    Cardinality({k \in 1..Len(Rows) :
                                    Outcome(k).kind = "insert"})
             /\ Len(committed) =
                    Count("INSERT")
                        + (IF loader = "destructive" THEN 0 ELSE Len(before)))

C9_Witness ==
    /\ RunCommitted
    /\ Len(Rows) = 2
    /\ LookupMiss(1)
    /\ ~LookupMiss(2)
    /\ log[Len(log) - 3] = "print WARNING: Skipping row. Student not found"
    /\ log[Len(log) - 2] = "INSERT"

\* the guardian of the last students row that carries the first name
Guardian(name) ==
    LET last == CHOOSE k \in 1..Len(students) :
                    /\ students[k].first_name = name
                    /\ \A j \in (k + 1)..Len(students) :
                           students[j].first_name # name
    IN  students[last].user_id.uuid

\* C10: after a destructive run that commits, tuition_logs holds exactly the
\* records of the rows that were not skipped, in file order, each with the
\* guardian of its first attendee, and nothing of what it held before; it is
\* empty when no row reached the INSERT.
C10_DestructiveReplaces ==
    (loader = "destructive" /\ RunCommitted) =>
        /\ committed = Records
        /\ Len(committed) = Count("INSERT")
        /\ \A k \in 1..Len(committed) :
               committed[k].parent_user_id =
                   Guardian(committed[k].attendee_names[1])
        /\ (\A k \in 1..Len(Rows) : Outcome(k).kind # "insert") =>
               committed = <<>>

C10_Witness ==
    /\ loader = "destructive"
    /\ RunCommitted
    /\ pc = "done"
    /\ before # <<>>
    /\ Len(committed) = 2
    /\ committed[1].parent_user_id = "g3"

====
